---- MODULE Spec2Model ----
(***************************************************************************)
(* Model of multi_fasta_concat.py: main() and concatenate_multifasta().    *)
(*                                                                         *)
(* A Python str is modelled as a sequence of one-character strings, so     *)
(* that indexing (line[0]), slicing (line[1:]), rstrip, len, "-" * n and   *)
(* the lexicographic order used by sorted() are computed, not assumed.     *)
(* The contents of the input files are the environment's choice: each      *)
(* iteration of "for line in infile" receives the next raw line of the     *)
(* file, and the lines handed out so far are recorded in the variable      *)
(* read.                                                                   *)
(***************************************************************************)
EXTENDS Integers, Sequences, FiniteSets, TLC

\* Longest file list given to --infiles.
MaxFiles == 3
\* Most raw lines of RawLines held by the distinct files of one run.
MaxLines == 4

VARIABLES
    file_list,  \* main: the paths of --infiles, in order
    read,       \* read[i]: the raw lines of file_list[i] iterated so far
    seq_DB,     \* the sequence database: seq_list, seq_length, occupancy, sequences
    last_seq,   \* local of concatenate_multifasta: <<>> while unassigned, else <<name>>
    pc,         \* position in the program
    error,      \* the uncaught exception that ended the run, "" if none
    stderr,     \* lines written to standard error
    stdout      \* lines written to standard output

vars == <<file_list, read, seq_DB, last_seq, pc, error, stderr, stdout>>

----------------------------------------------------------------------------
(* Strings *)

\* A str from its characters' description: Python's "-" * n (empty for n <= 0).
RECURSIVE Repeat(_, _)
Repeat(c, n) == IF n <= 0 THEN <<>> ELSE <<c>> \o Repeat(c, n - 1)

\* str.rstrip('\n'): every trailing newline is removed, nothing else.
RECURSIVE rstrip(_)
rstrip(s) ==
    IF s # <<>> /\ s[Len(s)] = "\n" THEN rstrip(SubSeq(s, 1, Len(s) - 1)) ELSE s

\* Code point of the characters the model uses (ASCII).
ord(c) ==
    CASE c = "\n" -> 10
      [] c = "-" -> 45
      [] c = "1" -> 49
      [] c = "2" -> 50
      [] c = "3" -> 51
      [] c = ">" -> 62
      [] c = "A" -> 65
      [] c = "C" -> 67
      [] c = "G" -> 71
      [] c = "S" -> 83
      [] c = "T" -> 84

\* Python's a < b on str: lexicographic by code point, a proper prefix first.
RECURSIVE StrLess(_, _)
StrLess(a, b) ==
    IF b = <<>> THEN FALSE
    ELSE IF a = <<>> THEN TRUE
    ELSE IF ord(a[1]) # ord(b[1]) THEN ord(a[1]) < ord(b[1])
    ELSE StrLess(Tail(a), Tail(b))

\* Insert x into the sorted list s, after the elements not greater than x.
RECURSIVE Insert(_, _)
Insert(x, s) ==
    IF s = <<>> THEN <<x>>
    ELSE IF StrLess(x, s[1]) THEN <<x>> \o s
    ELSE <<s[1]>> \o Insert(x, Tail(s))

\* sorted(list of str): ascending, duplicates kept.
RECURSIVE sorted(_)
sorted(s) == IF s = <<>> THEN <<>> ELSE Insert(s[Len(s)], sorted(SubSeq(s, 1, Len(s) - 1)))

\* sum of a list of int: list(accumulate(l))[-1] for a non-empty l.
RECURSIVE Sum(_)
Sum(l) == IF l = <<>> THEN 0 ELSE l[1] + Sum(Tail(l))

\* "\t".join / str concatenation of a list of str.
RECURSIVE Join(_, _)
Join(sep, l) ==
    IF l = <<>> THEN <<>>
    ELSE IF Len(l) = 1 THEN l[1]
    ELSE l[1] \o sep \o Join(sep, Tail(l))

SeqToSet(s) == {s[i] : i \in 1..Len(s)}

IsPrefix(s, t) == Len(s) <= Len(t) /\ s = SubSeq(t, 1, Len(s))

----------------------------------------------------------------------------
(* Inputs *)

\* Path names, as many as a file list may need.
Letters == <<"a", "b", "c", "d", "e", "f">>

\* The file lists --infiles can name: 1..MaxFiles paths, any of them named
\* again later. Which file is called what changes nothing, so a list names
\* its distinct paths in the order "a", "b", "c", ...
FileLists ==
    UNION { { [i \in 1..n |-> <<Letters[g[i]]>>] :
                g \in { h \in [1..n -> 1..n] :
                          /\ h[1] = 1
                          /\ \A i \in 2..n : \E j \in 1..(i - 1) : h[i] <= h[j] + 1 } } :
            n \in 1..MaxFiles }

\* Raw lines a file may hold: two headers, two one-residue body lines (one of
\* them a gap column of the input alignment), and an empty line.
RawLines ==
    { <<">", "S", "1", "\n">>, <<">", "S", "2", "\n">>,
      <<"A", "\n">>, <<"-", "\n">>, <<"\n">> }

\* The two files of the documented scenario.
ScenarioPaths == << <<"a">>, <<"b">> >>
ScenarioA ==
    << <<">", "S", "1", "\n">>, <<"A", "C", "G", "T", "\n">>,
       <<">", "S", "2", "\n">>, <<"A", "A", "A", "A", "\n">> >>
ScenarioB ==
    << <<">", "S", "2", "\n">>, <<"T", "T", "T", "T", "\n">>,
       <<">", "S", "3", "\n">>, <<"G", "G", "G", "G", "\n">> >>
Scenario == <<ScenarioA, ScenarioB>>
ScenarioLines == SeqToSet(ScenarioA) \cup SeqToSet(ScenarioB)

\* The lines of r, those of a path opened again not counted a second time.
LinesIn(r) ==
    LET first == {i \in 1..Len(r) : \A j \in 1..(i - 1) : file_list[j] # file_list[i]}
        RECURSIVE Count(_)
        Count(S) == IF S = {} THEN 0
                    ELSE LET i == CHOOSE x \in S : TRUE IN Len(r[i]) + Count(S \ {i})
    IN Count(first)

\* r is what has been iterated of some input: lines of RawLines, at most
\* MaxLines of them over the distinct paths, or the beginning of the
\* documented scenario.
InBounds(r) ==
    \/ /\ LinesIn(r) <= MaxLines
       /\ \A i \in 1..Len(r) : \A j \in 1..Len(r[i]) : r[i][j] \in RawLines
    \/ /\ file_list = ScenarioPaths
       /\ Len(r) <= Len(Scenario)
       /\ \A i \in 1..Len(r) :
            IF i < Len(r) THEN r[i] = Scenario[i] ELSE IsPrefix(r[i], Scenario[i])

\* A path named twice holds the same lines both times it is opened.
SameFileSameLines(r) ==
    \A i \in 1..Len(r) : \A j \in 1..Len(r) :
        (i < j /\ file_list[i] = file_list[j]) => IsPrefix(r[j], r[i])

\* The file being iterated may hand out raw as its next line.
CanRead(raw) ==
    LET r == [read EXCEPT ![Len(read)] = Append(@, raw)]
    IN InBounds(r) /\ SameFileSameLines(r)

\* The file being iterated may be at its end.
CanEnd ==
    /\ \A i \in 1..(Len(read) - 1) :
          file_list[i] = file_list[Len(read)] => read[i] = read[Len(read)]
    /\ \/ \A j \in 1..Len(read[Len(read)]) : read[Len(read)][j] \in RawLines
       \/ /\ Len(read) <= Len(Scenario)
          /\ read[Len(read)] = Scenario[Len(read)]

----------------------------------------------------------------------------
(* The sequence database and the steps of concatenate_multifasta *)

\* A dict with no key.
EmptyDict == [k \in {} |-> <<>>]

\* d[k] = v on a dict.
Put(d, k, v) == [x \in (DOMAIN d) \cup {k} |-> IF x = k THEN v ELSE d[x]]

\* main: the empty seq_DB.
EmptyDB ==
    [seq_list |-> <<>>, seq_length |-> <<>>, occupancy |-> EmptyDict, sequences |-> EmptyDict]

\* The loop over k in range(len(seq_length)): one block of gaps per earlier file.
RECURSIVE LeadingGaps(_)
LeadingGaps(lengths) ==
    IF lengths = <<>> THEN <<>>
    ELSE Repeat("-", lengths[1]) \o LeadingGaps(Tail(lengths))

\* NewSequence without the gaps of the earlier files.
NewSequenceNoGaps(db, seq_name) ==
    [db EXCEPT
        !.seq_list = Append(@, seq_name),
        !.sequences = Put(@, seq_name, <<>>),
        !.occupancy = Put(@, seq_name,
                          Append([k \in 1..Len(db.seq_length) |-> "0"], "1"))]

\* A header whose name is not in seq_list.
NewSequence(db, seq_name) ==
    [db EXCEPT
        !.seq_list = Append(@, seq_name),
        !.sequences = Put(@, seq_name, LeadingGaps(db.seq_length)),
        !.occupancy = Put(@, seq_name,
                          Append([k \in 1..Len(db.seq_length) |-> "0"], "1"))]

\* KnownSequence without the flag of the current file.
KnownSequenceNoFlag(db, seq_name) == db

\* A header whose name is in seq_list already.
KnownSequence(db, seq_name) ==
    [db EXCEPT !.occupancy[seq_name] = Append(@, "1")]

\* HeaderLine without the membership test.
HeaderLineAlwaysNew(db, seq_name) == NewSequence(db, seq_name)

\* The header branch of the line loop.
HeaderLine(db, seq_name) ==
    IF seq_name \notin SeqToSet(db.seq_list)
    THEN NewSequence(db, seq_name)
    ELSE KnownSequence(db, seq_name)

\* BodyLine that assigns the line instead of appending it.
BodyLineOverwrite(db, name, line) ==
    [db EXCEPT !.sequences[name] = line]

\* The body branch of the line loop: seq_DB["sequences"][last_seq] += line.
BodyLine(db, name, line) ==
    [db EXCEPT !.sequences[name] = @ \o line]

\* FileWidth without the widths of the earlier files subtracted.
FileWidthNoSubtract(db, name) == Len(db.sequences[name])

\* The width recorded once a file's lines are exhausted.
FileWidth(db, name) ==
    IF db.seq_length = <<>>
    THEN Len(db.sequences[name])
    ELSE Len(db.sequences[name]) - Sum(db.seq_length)

\* max(len(item) for item in seq_DB["occupancy"].values()), keys not empty.
LongestOccupancy(db) ==
    CHOOSE m \in {Len(db.occupancy[k]) : k \in DOMAIN db.occupancy} :
        \A k \in DOMAIN db.occupancy : Len(db.occupancy[k]) <= m

\* The loop over seq_list from position i on: a shorter occupancy gets a "0"
\* and seq_length[-1] gaps.
RECURSIVE PadFrom(_, _, _)
PadFrom(db, i, longest) ==
    IF i > Len(db.seq_list) THEN db
    ELSE LET sequence == db.seq_list[i]
             next == IF Len(db.occupancy[sequence]) < longest
                     THEN [db EXCEPT
                             !.occupancy[sequence] = Append(@, "0"),
                             !.sequences[sequence] =
                                 @ \o Repeat("-", db.seq_length[Len(db.seq_length)])]
                     ELSE db
         IN PadFrom(next, i + 1, longest)

\* PadShort that flags the shorter identifiers and appends no gap.
PadShortFlagOnly(db) ==
    [db EXCEPT !.occupancy =
        [k \in DOMAIN db.occupancy |->
            IF Len(db.occupancy[k]) < LongestOccupancy(db)
            THEN Append(db.occupancy[k], "0") ELSE db.occupancy[k]]]

\* PadShort that compares with <= and so pads every identifier.
PadShortEveryone(db) == PadFrom(db, 1, LongestOccupancy(db) + 1)

\* The pass that ends the processing of one file.
PadShort(db) == PadFrom(db, 1, LongestOccupancy(db))

----------------------------------------------------------------------------
(* The output of main *)

\* The occupancy table: the title row, then one row per key of occupancy in
\* the dict's order, which is the order the keys were inserted in (the order
\* of seq_list, line 142 and line 145 going together).
OccupancyTable(db, files) ==
    << Join(<<"\t">>, << <<"# Sequences">>, Join(<<"\t">>, files) >>) >>
    \o [i \in 1..Len(db.seq_list) |->
          Join(<<"\t">>,
               << db.seq_list[i],
                  Join(<<"\t">>, [j \in 1..Len(db.occupancy[db.seq_list[i]]) |->
                                     << db.occupancy[db.seq_list[i]][j] >>]) >>)]

\* The records printed for the names of l, in the order of l.
RECURSIVE Records(_, _)
Records(db, l) ==
    IF l = <<>> THEN <<>>
    ELSE << <<">">> \o l[1], db.sequences[l[1]] >> \o Records(db, Tail(l))

\* Alignment without the sort: the records in the order of seq_list.
AlignmentUnsorted(db) == Records(db, db.seq_list)

\* The merged alignment: one record per element of sorted(seq_list).
Alignment(db) == Records(db, sorted(db.seq_list))

----------------------------------------------------------------------------
(* The program *)

Init ==
    /\ file_list \in FileLists
    /\ read = <<>>
    /\ seq_DB = EmptyDB
    /\ last_seq = <<>>
    /\ pc = "for_file"
    /\ error = ""
    /\ stderr = <<>>
    /\ stdout = <<>>

Raise(e) ==
    /\ pc' = "failed"
    /\ error' = e
    /\ UNCHANGED <<file_list, read, seq_DB, last_seq, stderr, stdout>>

\* OpenFile in a main that writes the title row before the files are read.
OpenFileTitleFirst ==
    /\ pc = "for_file"
    /\ Len(read) < Len(file_list)
    /\ read' = Append(read, <<>>)
    /\ pc' = "for_line"
    /\ stderr' = IF read = <<>>
                 THEN << Join(<<"\t">>, << <<"# Sequences">>, Join(<<"\t">>, file_list) >>) >>
                 ELSE stderr
    /\ UNCHANGED <<file_list, seq_DB, last_seq, error, stdout>>

\* "for file in file_list" takes the next path and open(file) succeeds.
OpenFile ==
    /\ pc = "for_file"
    /\ Len(read) < Len(file_list)
    /\ read' = Append(read, <<>>)
    /\ pc' = "for_line"
    /\ UNCHANGED <<file_list, seq_DB, last_seq, error, stderr, stdout>>

\* open(file) fails: a path that was not opened before names no readable file.
OpenFails ==
    /\ pc = "for_file"
    /\ Len(read) < Len(file_list)
    /\ \A i \in 1..Len(read) : file_list[i] # file_list[Len(read) + 1]
    /\ Raise("FileNotFoundError")

\* The line, once its newline is removed, is empty: line[0] is out of range.
ReadEmptyLine ==
    /\ pc = "for_line"
    /\ \E raw \in RawLines \cup ScenarioLines :
        /\ rstrip(raw) = <<>>
        /\ CanRead(raw)
        /\ read' = [read EXCEPT ![Len(read)] = Append(@, raw)]
    /\ pc' = "failed"
    /\ error' = "IndexError"
    /\ UNCHANGED <<file_list, seq_DB, last_seq, stderr, stdout>>

\* A header line.
ReadHeader ==
    /\ pc = "for_line"
    /\ \E raw \in RawLines \cup ScenarioLines :
        LET line == rstrip(raw) IN
        /\ line # <<>>
        /\ line[1] = ">"
        /\ CanRead(raw)
        /\ read' = [read EXCEPT ![Len(read)] = Append(@, raw)]
        /\ seq_DB' = HeaderLine(seq_DB, Tail(line))
        /\ last_seq' = <<Tail(line)>>
    /\ UNCHANGED <<file_list, pc, error, stderr, stdout>>

\* A body line while last_seq is assigned.
ReadBody ==
    /\ pc = "for_line"
    /\ last_seq # <<>>
    /\ \E raw \in RawLines \cup ScenarioLines :
        LET line == rstrip(raw) IN
        /\ line # <<>>
        /\ line[1] # ">"
        /\ CanRead(raw)
        /\ read' = [read EXCEPT ![Len(read)] = Append(@, raw)]
        /\ seq_DB' = BodyLine(seq_DB, last_seq[1], line)
    /\ UNCHANGED <<file_list, last_seq, pc, error, stderr, stdout>>

\* A body line while last_seq was never assigned.
ReadBodyUnassigned ==
    /\ pc = "for_line"
    /\ last_seq = <<>>
    /\ \E raw \in RawLines \cup ScenarioLines :
        LET line == rstrip(raw) IN
        /\ line # <<>>
        /\ line[1] # ">"
        /\ CanRead(raw)
        /\ read' = [read EXCEPT ![Len(read)] = Append(@, raw)]
    /\ pc' = "failed"
    /\ error' = "UnboundLocalError"
    /\ UNCHANGED <<file_list, seq_DB, last_seq, stderr, stdout>>

\* AddLength that rejects a width below zero.
AddLengthStrict ==
    /\ pc = "for_line"
    /\ CanEnd
    /\ last_seq # <<>>
    /\ IF FileWidth(seq_DB, last_seq[1]) < 0
       THEN /\ pc' = "failed"
            /\ error' = "ValueError"
            /\ UNCHANGED seq_DB
       ELSE /\ seq_DB' = [seq_DB EXCEPT
                            !.seq_length = Append(@, FileWidth(seq_DB, last_seq[1]))]
            /\ pc' = "pad"
            /\ UNCHANGED error
    /\ UNCHANGED <<file_list, read, last_seq, stderr, stdout>>

\* The file has no further line: seq_length gets the width of the file just read.
AddLength ==
    /\ pc = "for_line"
    /\ CanEnd
    /\ last_seq # <<>>
    /\ seq_DB' = [seq_DB EXCEPT !.seq_length = Append(@, FileWidth(seq_DB, last_seq[1]))]
    /\ pc' = "pad"
    /\ UNCHANGED <<file_list, read, last_seq, error, stderr, stdout>>

\* The file has no further line and last_seq was never assigned.
AddLengthUnassigned ==
    /\ pc = "for_line"
    /\ CanEnd
    /\ last_seq = <<>>
    /\ Raise("UnboundLocalError")

\* The padding pass; occupancy has a key, since last_seq was assigned.
Pad ==
    /\ pc = "pad"
    /\ seq_DB' = PadShort(seq_DB)
    /\ pc' = "for_file"
    /\ UNCHANGED <<file_list, read, last_seq, error, stderr, stdout>>

\* concatenate_multifasta returns to main.
Return ==
    /\ pc = "for_file"
    /\ Len(read) = Len(file_list)
    /\ pc' = "write_occupancy"
    /\ UNCHANGED <<file_list, read, seq_DB, last_seq, error, stderr, stdout>>

\* main writes the occupancy table to standard error.
WriteOccupancy ==
    /\ pc = "write_occupancy"
    /\ stderr' = stderr \o OccupancyTable(seq_DB, file_list)
    /\ pc' = "print_alignment"
    /\ UNCHANGED <<file_list, read, seq_DB, last_seq, error, stdout>>

\* main prints the merged alignment to standard output.
PrintAlignment ==
    /\ pc = "print_alignment"
    /\ stdout' = stdout \o Alignment(seq_DB)
    /\ pc' = "done"
    /\ UNCHANGED <<file_list, read, seq_DB, last_seq, error, stderr>>

Next ==
    \/ OpenFile
    \/ OpenFails
    \/ ReadEmptyLine
    \/ ReadHeader
    \/ ReadBody
    \/ ReadBodyUnassigned
    \/ AddLength
    \/ AddLengthUnassigned
    \/ Pad
    \/ Return
    \/ WriteOccupancy
    \/ PrintAlignment

Spec == Init /\ [][Next]_vars

----------------------------------------------------------------------------
(* A file read on its own: the FASTA reading of its raw lines *)

IsHeader(raw) == LET line == rstrip(raw) IN line # <<>> /\ line[1] = ">"

NameOf(raw) == Tail(rstrip(raw))

\* The names of the header lines of f, in order, repetitions kept.
RECURSIVE Headers(_)
Headers(f) ==
    IF f = <<>> THEN <<>>
    ELSE (IF IsHeader(f[1]) THEN <<NameOf(f[1])>> ELSE <<>>) \o Headers(Tail(f))

\* The residues f holds for name: the body lines that follow a header of that
\* name, up to the next header; on tells whether such a header is the latest.
RECURSIVE ResiduesFrom(_, _, _)
ResiduesFrom(f, name, on) ==
    IF f = <<>> THEN <<>>
    ELSE IF IsHeader(f[1]) THEN ResiduesFrom(Tail(f), name, NameOf(f[1]) = name)
    ELSE (IF on THEN rstrip(f[1]) ELSE <<>>) \o ResiduesFrom(Tail(f), name, on)

Residues(f, name) == ResiduesFrom(f, name, FALSE)

HasRecord(f, name) == name \in SeqToSet(Headers(f))

\* f has a record, starts with a header, has no empty line, repeats no name
\* and gives all its records the same residue count.
WellFormed(f) ==
    /\ f # <<>>
    /\ IsHeader(f[1])
    /\ \A j \in 1..Len(f) : rstrip(f[j]) # <<>>
    /\ LET names == Headers(f)
           width == Len(Residues(f, names[1]))
       IN /\ Cardinality(SeqToSet(names)) = Len(names)
          /\ \A k \in 2..Len(names) : Len(Residues(f, names[k])) = width

\* The per-record residue count of a well-formed file.
WidthOf(f) == Len(Residues(f, NameOf(f[1])))

AllWellFormed == \A i \in 1..Len(read) : WellFormed(read[i])

\* Every file opened so far has been read to its end and reconciled.
Reconciled == read # <<>> /\ pc \in {"for_file", "write_occupancy", "print_alignment", "done"}

\* concatenate_multifasta has returned.
Returned == pc \in {"write_occupancy", "print_alignment", "done"}

\* The names whose header has been read, each once, in the order first read.
RECURSIVE DedupFrom(_, _)
DedupFrom(l, seen) ==
    IF l = <<>> THEN seen
    ELSE DedupFrom(Tail(l), IF l[1] \in SeqToSet(seen) THEN seen ELSE Append(seen, l[1]))

Dedup(l) == DedupFrom(l, <<>>)

RECURSIVE AllHeaders(_)
AllHeaders(r) == IF r = <<>> THEN <<>> ELSE Headers(r[1]) \o AllHeaders(Tail(r))

\* The columns of s that belong to file i.
Block(s, i) ==
    SubSeq(s, Sum(SubSeq(seq_DB.seq_length, 1, i - 1)) + 1,
              Sum(SubSeq(seq_DB.seq_length, 1, i)))

S1 == <<"S", "1">>
S2 == <<"S", "2">>
S3 == <<"S", "3">>

----------------------------------------------------------------------------
(* Claims *)

\* C1: once well-formed files have each been read and reconciled, every
\* identifier of seq_list has one occupancy flag per file processed and a
\* sequence as long as the sum of seq_length, and seq_length[i] is the
\* per-record residue count of file i taken alone.
C1_Aligned ==
    (Reconciled /\ AllWellFormed) =>
        /\ Len(seq_DB.seq_length) = Len(read)
        /\ \A i \in 1..Len(read) :
              i <= Len(seq_DB.seq_length) /\ seq_DB.seq_length[i] = WidthOf(read[i])
        /\ \A id \in SeqToSet(seq_DB.seq_list) :
              /\ Len(seq_DB.occupancy[id]) = Len(seq_DB.seq_length)
              /\ Len(seq_DB.sequences[id]) = Sum(seq_DB.seq_length)

\* Three well-formed files of width 1 merged, one identifier missing from a file.
C1_Witness ==
    /\ Reconciled /\ AllWellFormed
    /\ Len(read) = 3
    /\ seq_DB.seq_length = <<1, 1, 1>>
    /\ Len(seq_DB.seq_list) = 2

\* C2: after well-formed files, an identifier without a record in file i has
\* flag "0" at i and only '-' in the columns of file i; one with a record has
\* flag "1" and the record's residues there.
C2_Blocks ==
    (Reconciled /\ AllWellFormed) =>
        /\ Len(seq_DB.seq_length) = Len(read)
        /\ \A k \in 1..Len(seq_DB.seq_length) : seq_DB.seq_length[k] >= 0
        /\ \A id \in SeqToSet(seq_DB.seq_list) :
              /\ Len(seq_DB.occupancy[id]) = Len(read)
              /\ Len(seq_DB.sequences[id]) = Sum(seq_DB.seq_length)
              /\ \A i \in 1..Len(read) :
                    IF HasRecord(read[i], id)
                    THEN /\ seq_DB.occupancy[id][i] = "1"
                         /\ Block(seq_DB.sequences[id], i) = Residues(read[i], id)
                    ELSE /\ seq_DB.occupancy[id][i] = "0"
                         /\ Block(seq_DB.sequences[id], i) =
                               Repeat("-", seq_DB.seq_length[i])

\* One identifier first seen in the second file, another missing from it, both
\* files one residue wide.
C2_Witness ==
    /\ Returned /\ AllWellFormed
    /\ Len(read) >= 2
    /\ seq_DB.seq_length[1] = 1 /\ seq_DB.seq_length[2] = 1
    /\ \E id \in SeqToSet(seq_DB.seq_list) :
          ~HasRecord(read[1], id) /\ HasRecord(read[2], id)
    /\ \E id \in SeqToSet(seq_DB.seq_list) :
          HasRecord(read[1], id) /\ ~HasRecord(read[2], id)

\* C3: file A = [S1: ACGT, S2: AAAA] then file B = [S2: TTTT, S3: GGGG] gives
\* S1 = ACGT----, S2 = AAAATTTT, S3 = ----GGGG, occupancy S1 = 1 0, S2 = 1 1,
\* S3 = 0 1 and seq_length = [4, 4].
C3_Scenario ==
    (read = Scenario /\ Returned) =>
        /\ seq_DB.seq_length = <<4, 4>>
        /\ DOMAIN seq_DB.sequences = {S1, S2, S3}
        /\ DOMAIN seq_DB.occupancy = {S1, S2, S3}
        /\ seq_DB.sequences[S1] = <<"A", "C", "G", "T", "-", "-", "-", "-">>
        /\ seq_DB.sequences[S2] = <<"A", "A", "A", "A", "T", "T", "T", "T">>
        /\ seq_DB.sequences[S3] = <<"-", "-", "-", "-", "G", "G", "G", "G">>
        /\ seq_DB.occupancy[S1] = <<"1", "0">>
        /\ seq_DB.occupancy[S2] = <<"1", "1">>
        /\ seq_DB.occupancy[S3] = <<"0", "1">>

\* The scenario's two files have been merged and printed.
C3_Witness == read = Scenario /\ pc = "done"

\* C4: in every state seq_list holds no identifier twice, lists the
\* identifiers in the order of their first header over all files, and the
\* keys of occupancy and of sequences are exactly its identifiers, which are
\* exactly those whose header has been read.
C4_SeqList ==
    LET headers == AllHeaders(read)
        ids == SeqToSet(seq_DB.seq_list)
    IN /\ seq_DB.seq_list = Dedup(headers)
       /\ Cardinality(ids) = Len(seq_DB.seq_list)
       /\ DOMAIN seq_DB.occupancy = ids
       /\ DOMAIN seq_DB.sequences = ids
       /\ ids = SeqToSet(headers)

\* S2 was first seen before S1, and a header of a known identifier was read
\* again in a later file.
C4_Witness ==
    /\ seq_DB.seq_list = <<S2, S1>>
    /\ Len(read) >= 2
    /\ HasRecord(read[1], S2) /\ HasRecord(read[2], S2) /\ HasRecord(read[2], S1)

\* C5: an empty file, wherever it stands in the file list, makes the run fail
\* instead of completing the merge.
C5_EmptyFileFails == ~(Returned /\ \E i \in 1..Len(read) : read[i] = <<>>)

\* C6: a file whose first line is a body line, wherever it stands in the file
\* list, ends the run with an unassigned-reference failure at that line.
C6_HeaderlessFails ==
    \A i \in 1..Len(read) :
        (read[i] # <<>> /\ rstrip(read[i][1]) # <<>> /\ ~IsHeader(read[i][1])) =>
            /\ pc = "failed"
            /\ error = "UnboundLocalError"
            /\ i = Len(read)
            /\ Len(read[i]) = 1

\* C7: a run that failed has written nothing, and whatever is written is
\* written after every file of the list was read and reconciled.
C7_NoPartialOutput ==
    /\ pc = "failed" => (stderr = <<>> /\ stdout = <<>>)
    /\ (stderr # <<>> \/ stdout # <<>>) =>
          /\ error = ""
          /\ Len(read) = Len(file_list)
          /\ Len(seq_DB.seq_length) = Len(file_list)
          /\ pc \in {"print_alignment", "done"}

\* The run failed in a later file, with identifiers already merged.
C7_Witness ==
    /\ pc = "failed"
    /\ Len(read) >= 2
    /\ seq_DB.seq_list # <<>>
    /\ seq_DB.seq_length # <<>>

\* The file list is [A] or [A, A] for a well-formed A, and the merge returned.
SelfMerge ==
    /\ Returned
    /\ WellFormed(read[1])
    /\ Len(read) = 1 \/ (Len(read) = 2 /\ read[2] = read[1])

\* C8 as claimed: merging [A] or [A, A] gives every identifier of A flags all
\* "1" and the residues A holds for it as its accumulated sequence.
C8_SelfMergeAsClaimed ==
    SelfMerge =>
        \A id \in SeqToSet(Headers(read[1])) :
            /\ id \in SeqToSet(seq_DB.seq_list)
            /\ \A k \in 1..Len(seq_DB.occupancy[id]) : seq_DB.occupancy[id][k] = "1"
            /\ seq_DB.sequences[id] = Residues(read[1], id)

\* C8 amended: merging [A] or [A, A] gives exactly the identifiers of A, each
\* with one flag "1" per file of the list and with the residues A holds for
\* it, once for [A] and twice in a row for [A, A].
C8_SelfMerge ==
    SelfMerge =>
        /\ SeqToSet(seq_DB.seq_list) = SeqToSet(Headers(read[1]))
        /\ \A id \in SeqToSet(Headers(read[1])) :
              /\ id \in DOMAIN seq_DB.occupancy
              /\ seq_DB.occupancy[id] = [k \in 1..Len(read) |-> "1"]
              /\ seq_DB.sequences[id] =
                    IF Len(read) = 1 THEN Residues(read[1], id)
                    ELSE Residues(read[1], id) \o Residues(read[1], id)

\* A file of two records, one residue each, merged with itself.
C8_Witness ==
    /\ SelfMerge
    /\ file_list = << <<"a">>, <<"a">> >>
    /\ Len(Headers(read[1])) = 2
    /\ WidthOf(read[1]) = 1

\* The number of '-' in a str.
RECURSIVE GapCount(_)
GapCount(str) ==
    IF str = <<>> THEN 0 ELSE (IF str[1] = "-" THEN 1 ELSE 0) + GapCount(Tail(str))

\* The number of '-' in the body lines of the files of r.
RECURSIVE InputGaps(_)
InputGaps(r) ==
    IF r = <<>> THEN 0
    ELSE LET RECURSIVE InFile(_)
             InFile(f) == IF f = <<>> THEN 0
                          ELSE (IF IsHeader(f[1]) THEN 0 ELSE GapCount(rstrip(f[1])))
                               + InFile(Tail(f))
         IN InFile(r[1]) + InputGaps(Tail(r))

InEveryFile(id) == \A i \in 1..Len(read) : HasRecord(read[i], id)

NoRepeatedHeader == \A i \in 1..Len(read) :
    Cardinality(SeqToSet(Headers(read[i]))) = Len(Headers(read[i]))

C10_SortedOutput ==
    pc = "done" =>
        /\ Len(stdout) = 2 * Len(seq_DB.seq_list)
        /\ \A k \in 1..Len(seq_DB.seq_list) :
              /\ stdout[2 * k - 1] # <<>>
              /\ stdout[2 * k - 1][1] = ">"
              /\ Tail(stdout[2 * k - 1]) \in DOMAIN seq_DB.sequences
              /\ stdout[2 * k] = seq_DB.sequences[Tail(stdout[2 * k - 1])]
        /\ \A k \in 1..(Len(seq_DB.seq_list) - 1) :
              StrLess(Tail(stdout[2 * k - 1]), Tail(stdout[2 * k + 1]))
        /\ \A id \in SeqToSet(seq_DB.seq_list) :
              \E k \in 1..Len(seq_DB.seq_list) : stdout[2 * k - 1] = <<">">> \o id

\* The identifiers were first seen in the order S2, S1 and are printed S1, S2.
C10_Witness ==
    /\ pc = "done"
    /\ seq_DB.seq_list = <<S2, S1>>
    /\ stdout[1] = <<">", "S", "1">>
    /\ stdout[3] = <<">", "S", "2">>
    /\ stdout[2] # <<>>

\* The file being read, or the one read last.
CurrentFile == read[Len(read)]

\* C11: the padding pass appends "0" and gaps to exactly the known
\* identifiers that have no record in the file just read.
C11_PadsExactlyAbsent ==
    [][pc = "pad" =>
          \A id \in SeqToSet(seq_DB.seq_list) :
              (seq_DB'.occupancy[id] # seq_DB.occupancy[id]) <=> ~HasRecord(CurrentFile, id)]_vars

\* Every file starts with a header and has no empty line, and every file
\* read to its end has a line: the files a run reads without an exception.
Readable ==
    \A i \in 1..Len(read) :
        /\ read[i] # <<>> \/ (i = Len(read) /\ pc = "for_line")
        /\ read[i] # <<>> => IsHeader(read[i][1])
        /\ \A j \in 1..Len(read[i]) : rstrip(read[i][j]) # <<>>

\* The file f with each identifier under one header, the first of that
\* name, followed by the body lines of all its occurrences.
RECURSIVE BodyOf(_, _, _)
BodyOf(f, name, on) ==
    IF f = <<>> THEN <<>>
    ELSE IF IsHeader(f[1]) THEN BodyOf(Tail(f), name, NameOf(f[1]) = name)
    ELSE (IF on THEN <<f[1]>> ELSE <<>>) \o BodyOf(Tail(f), name, on)

RECURSIVE SingleHeaders(_, _)
SingleHeaders(f, names) ==
    IF names = <<>> THEN <<>>
    ELSE << <<">">> \o names[1] \o <<"\n">> >> \o BodyOf(f, names[1], FALSE)
         \o SingleHeaders(f, Tail(names))

\* The line loop over the lines of f, from the database db and last_seq last.
RECURSIVE AfterLines(_, _, _)
AfterLines(db, last, f) ==
    IF f = <<>> THEN <<db, last>>
    ELSE LET line == rstrip(f[1])
         IN IF line[1] = ">"
            THEN AfterLines(HeaderLine(db, Tail(line)), <<Tail(line)>>, Tail(f))
            ELSE AfterLines(BodyLine(db, last[1], line), last, Tail(f))

\* The database after the files of r, each read, measured and padded.
RECURSIVE AfterFiles(_, _, _)
AfterFiles(db, last, r) ==
    IF r = <<>> THEN db
    ELSE LET lines == AfterLines(db, last, r[1])
             measured == [lines[1] EXCEPT
                            !.seq_length = Append(@, FileWidth(lines[1], lines[2][1]))]
         IN AfterFiles(PadShort(measured), lines[2], Tail(r))

\* C12: a file that names an identifier in two headers leaves the database
\* as the same file with that identifier under a single header would.
C12_RepeatedHeaderContinues ==
    (Reconciled /\ Readable) =>
        seq_DB = AfterFiles(EmptyDB, <<>>,
                            [i \in 1..Len(read) |->
                                SingleHeaders(read[i], Dedup(Headers(read[i])))])

\* The body lines of f after its last header.
RECURSIVE LastRecord(_)
LastRecord(f) ==
    IF f = <<>> \/ IsHeader(f[Len(f)]) THEN <<>>
    ELSE LastRecord(SubSeq(f, 1, Len(f) - 1)) \o rstrip(f[Len(f)])

\* C13: the width appended for a file is the number of residues its last
\* record contributed, is not negative, and is the accumulated length of that
\* identifier less the widths recorded before.
C13_WidthOfLastRecord ==
    pc = "pad" =>
        LET n == Len(seq_DB.seq_length)
            width == seq_DB.seq_length[n]
        IN /\ width >= 0
           /\ Headers(CurrentFile) # <<>> => width = Len(LastRecord(CurrentFile))
           /\ width = Len(seq_DB.sequences[last_seq[1]])
                        - Sum(SubSeq(seq_DB.seq_length, 1, n - 1))

IsSuffix(s, t) == Len(s) <= Len(t) /\ s = SubSeq(t, Len(t) - Len(s) + 1, Len(t))

\* C14: the residues appended for a record are its non-header lines in
\* order, a line that is empty without its newline included, and reading
\* such a line never fails.
C14_BodyLinesAppended ==
    /\ ~(pc = "failed" /\ error = "IndexError" /\ Headers(CurrentFile) # <<>>)
    /\ (pc = "for_line" /\ Headers(CurrentFile) # <<>>) =>
          IsSuffix(LastRecord(CurrentFile), seq_DB.sequences[last_seq[1]])

\* C15: non-empty files that start with a header and hold no empty line never
\* make the merge fail, whatever the lengths of their records: no exception
\* is raised while they are read, and on return every file has its width.
C15_NeverFails ==
    /\ (pc = "failed" /\ Readable) => error = "FileNotFoundError"
    /\ (Returned /\ Readable) => /\ Len(read) = Len(file_list)
                                 /\ Len(seq_DB.seq_length) = Len(file_list)

\* A merge that returned although records of one file differ in length, and
\* a width below zero was recorded.
C15_Witness ==
    /\ Returned /\ Readable /\ NoRepeatedHeader
    /\ ~AllWellFormed
    /\ \E k \in 1..Len(seq_DB.seq_length) : seq_DB.seq_length[k] < 0

\* C16: every step leaves seq_list, seq_length and each known identifier's
\* occupancy and sequence as prefixes of their new values.
C16_AppendOnly ==
    [][/\ IsPrefix(seq_DB.seq_list, seq_DB'.seq_list)
       /\ IsPrefix(seq_DB.seq_length, seq_DB'.seq_length)
       /\ \A id \in DOMAIN seq_DB.occupancy :
             /\ id \in DOMAIN seq_DB'.occupancy
             /\ IsPrefix(seq_DB.occupancy[id], seq_DB'.occupancy[id])
       /\ \A id \in DOMAIN seq_DB.sequences :
             /\ id \in DOMAIN seq_DB'.sequences
             /\ IsPrefix(seq_DB.sequences[id], seq_DB'.sequences[id])]_vars

\* Two files merged: S1 holds a residue and then a gap, S2 a gap and then a
\* residue, so every kind of step has extended the database.
C16_Witness ==
    /\ Reconciled
    /\ seq_DB.seq_list = <<S1, S2>>
    /\ seq_DB.seq_length = <<1, 1>>
    /\ seq_DB.occupancy[S1] = <<"1", "0">>
    /\ seq_DB.occupancy[S2] = <<"0", "1">>
    /\ seq_DB.sequences[S1] = <<"A", "-">>
    /\ seq_DB.sequences[S2] = <<"-", "A">>

\* C17: a body line is appended only to the identifier of the latest header
\* of the file it is read from; last_seq does not carry over to the next file.
C17_BodyGoesToLatestHeader ==
    [][\A id \in DOMAIN seq_DB.sequences :
          (/\ pc = "for_line"
           /\ pc' = "for_line"
           /\ id \in DOMAIN seq_DB'.sequences
           /\ seq_DB'.sequences[id] # seq_DB.sequences[id]) =>
              /\ Headers(CurrentFile) # <<>>
              /\ id = Headers(CurrentFile)[Len(Headers(CurrentFile))]]_vars

====
